---- MODULE Spec2Model ----
(***************************************************************************)
(* Model of the SPV simulator core (src/backend.py): the Merkle tree of a  *)
(* block, the full node that hands out inclusion proofs, and the SPV       *)
(* client that folds a proof back into a root and compares it with the     *)
(* root of the header it stores.                                           *)
(*                                                                         *)
(* Strings are sequences of symbols.  A symbol is a record                 *)
(*   [c |-> n, pre |-> s]                                                  *)
(* with n >= 1 for a plain character (pre is empty) and n = 0 for the      *)
(* digest of the string s.  A digest is therefore equal to another digest  *)
(* exactly when the digested strings are equal: the fingerprint function   *)
(* is modelled collision-free, and string concatenation is \o.             *)
(* Python's None is a reserved value of the same shape as the values it    *)
(* replaces, so that it compares unequal to every one of them.             *)
(***************************************************************************)
EXTENDS Integers, Sequences, FiniteSets, TLC

\* ------------------------------------------------------------------ bounds
\* number of distinct record contents a block is drawn from
NumData == 2
\* longest transaction list of a block whose records may repeat
MaxTx == 3
\* longest transaction list of a block of pairwise different records
MaxDistinct == 5
\* longest proof a caller makes up itself
MaxProofLen == 2

\* ------------------------------------------------------------- Python values
\* None where a string is expected (root of an empty tree)
None == << [c |-> -1, pre |-> <<>>] >>

\* None where a proof (a list of (sibling, side) tuples) is expected
NoneProof == << <<None, "none">> >>

\* None where a header dict is expected (SPVClient.block_header initially)
NoHeader == [isNone |-> TRUE, merkle_root |-> None]

\* the dict {"merkle_root": r}
Header(r) == [isNone |-> FALSE, merkle_root |-> r]

\* the one-character string of record content d
Chr(d) == << [c |-> d, pre |-> <<>>] >>

\* ------------------------------------------------------------------ hashing
\* double_sha256(data): hex digest of the digest of data, one opaque symbol
double_sha256(data) == << [c |-> 0, pre |-> data] >>

\* Transaction(data_str): data and the txid computed once from it
Transaction(data_str) == [data |-> data_str, txid |-> double_sha256(data_str)]

\* ---------------------------------------------------------------- the tree
\* integer division helpers of the level arithmetic
Half(n) == n \div 2

\* the while loop with a slip in the pairing: left_child + left_child
RECURSIVE BuildLoop_LeftTwice(_)
BuildLoop_LeftTwice(levels) ==
    LET current_level == levels[Len(levels)] IN
    IF Len(current_level) > 1
    THEN LET padded == IF Len(current_level) % 2 # 0
                       THEN Append(current_level, current_level[Len(current_level)])
                       ELSE current_level
             next_level == [i \in 1..Half(Len(padded)) |->
                               double_sha256(padded[2*i - 1] \o padded[2*i - 1])]
         IN BuildLoop_LeftTwice(Append([levels EXCEPT ![Len(levels)] = padded], next_level))
    ELSE levels

\* the while loop of _build_tree_levels; levels[Len(levels)] is current_level.
\* current_level is the very list object stored in levels (and, for the first
\* iteration, the caller's list), so the append of the odd case is visible in
\* the stored level.
RECURSIVE BuildLoop(_)
BuildLoop(levels) ==
    LET current_level == levels[Len(levels)] IN
    IF Len(current_level) > 1
    THEN LET padded == IF Len(current_level) % 2 # 0
                       THEN Append(current_level, current_level[Len(current_level)])
                       ELSE current_level
             next_level == [i \in 1..Half(Len(padded)) |->
                               double_sha256(padded[2*i - 1] \o padded[2*i])]
         IN BuildLoop(Append([levels EXCEPT ![Len(levels)] = padded], next_level))
    ELSE levels

\* _build_tree_levels(leaves): the returned list of levels
_build_tree_levels(leaves) ==
    IF leaves = <<>> THEN <<>> ELSE BuildLoop(<<leaves>>)

\* the list object passed as leaves, as it is after _build_tree_levels
\* returned: it is levels[0] of the result (levels = [leaves])
LeavesAfterBuild(leaves) ==
    IF leaves = <<>> THEN leaves ELSE _build_tree_levels(leaves)[1]

\* the for loop of get_proof from level lv (0-based) with current_index
RECURSIVE ProofLoop(_, _, _, _)
ProofLoop(levels, lv, current_index, proof) ==
    IF lv >= Len(levels) - 1 THEN proof
    ELSE LET current_level_list == levels[lv + 1]
             is_odd_node == (Len(current_level_list) % 2 # 0)
             step ==
               IF is_odd_node /\ current_index = Len(current_level_list) - 1
               THEN proof
               ELSE IF current_index % 2 = 0
               THEN Append(proof, <<current_level_list[(current_index + 1) + 1], "right">>)
               ELSE Append(proof, <<current_level_list[(current_index - 1) + 1], "left">>)
         IN ProofLoop(levels, lv + 1, Half(current_index), step)

\* list.index with the last element left out of the search
Index_OffByOne(list, x) ==
    IF \E i \in 1..(Len(list) - 1) : list[i] = x
    THEN (CHOOSE i \in 1..(Len(list) - 1) :
             list[i] = x /\ \A j \in 1..(i - 1) : list[j] # x) - 1
    ELSE -1

\* list.index that finds the last occurrence (rindex)
Index_LastMatch(list, x) ==
    IF \E i \in 1..Len(list) : list[i] = x
    THEN (CHOOSE i \in 1..Len(list) :
             list[i] = x /\ \A j \in (i + 1)..Len(list) : list[j] # x) - 1
    ELSE -1

\* list.index(x): 0-based position of the first occurrence, -1 for ValueError
Index(list, x) ==
    IF \E i \in 1..Len(list) : list[i] = x
    THEN (CHOOSE i \in 1..Len(list) :
             list[i] = x /\ \A j \in 1..(i - 1) : list[j] # x) - 1
    ELSE -1

\* MerkleTree.get_proof(target_txid) on a tree with the given txids and levels
get_proof(ids, levels, target_txid) ==
    IF Index(ids, target_txid) = -1 THEN NoneProof
    ELSE ProofLoop(levels, 0, Index(ids, target_txid), <<>>)

\* ------------------------------------------------------------- verification
\* the fold with the two sides confused: the sibling is always put on the right
RECURSIVE Fold_IgnoreSide(_, _, _)
Fold_IgnoreSide(calculated_hash, proof, i) ==
    IF i > Len(proof) THEN calculated_hash
    ELSE Fold_IgnoreSide(double_sha256(calculated_hash \o proof[i][1]), proof, i + 1)

\* the for loop of verify_transaction over proof[i..]
RECURSIVE Fold(_, _, _)
Fold(calculated_hash, proof, i) ==
    IF i > Len(proof) THEN calculated_hash
    ELSE LET sibling_hash == proof[i][1]
             side == proof[i][2]
             combined_data == IF side = "right"
                              THEN calculated_hash \o sibling_hash
                              ELSE sibling_hash \o calculated_hash
         IN Fold(double_sha256(combined_data), proof, i + 1)

\* verify_transaction with "if not proof" for "if proof is None": the empty
\* proof is refused like a missing one
verify_transaction_NotProof(hdr, txid, proof) ==
    IF hdr.isNone THEN [ret |-> "False", steps |-> 0]
    ELSE IF proof = NoneProof \/ proof = <<>> THEN [ret |-> "False", steps |-> 0]
    ELSE [ret |-> IF Fold(txid, proof, 1) = hdr.merkle_root THEN "True" ELSE "False",
          steps |-> Len(proof)]

\* verify_transaction that takes an empty proof as nothing left to check and
\* returns True without the comparison
verify_transaction_EmptyAccepted(hdr, txid, proof) ==
    IF hdr.isNone THEN [ret |-> "False", steps |-> 0]
    ELSE IF proof = NoneProof THEN [ret |-> "False", steps |-> 0]
    ELSE IF proof = <<>> THEN [ret |-> "True", steps |-> 0]
    ELSE [ret |-> IF Fold(txid, proof, 1) = hdr.merkle_root THEN "True" ELSE "False",
          steps |-> Len(proof)]

\* verify_transaction without the header check: the fold runs and the
\* subscript of None raises TypeError
verify_transaction_NoHeaderCheck(hdr, txid, proof) ==
    IF proof = NoneProof THEN [ret |-> "False", steps |-> 0]
    ELSE IF hdr.isNone THEN [ret |-> "TypeError", steps |-> Len(proof)]
    ELSE [ret |-> IF Fold(txid, proof, 1) = hdr.merkle_root THEN "True" ELSE "False",
          steps |-> Len(proof)]

\* SPVClient.verify_transaction(txid, proof) with the stored header hdr:
\* the returned value and the number of fold steps performed
verify_transaction(hdr, txid, proof) ==
    IF hdr.isNone THEN [ret |-> "False", steps |-> 0]
    ELSE IF proof = NoneProof THEN [ret |-> "False", steps |-> 0]
    ELSE [ret |-> IF Fold(txid, proof, 1) = hdr.merkle_root THEN "True" ELSE "False",
          steps |-> Len(proof)]

\* ------------------------------------------------------------------- state
VARIABLES
    built,         \* a Block (and the FullNode holding it) has been constructed
    transactions,  \* Block.transactions / MerkleTree.transactions
    txids,         \* MerkleTree.txids
    tree_levels,   \* MerkleTree.tree_levels
    root,          \* MerkleTree.root
    header,        \* Block.header
    block_header,  \* SPVClient.block_header
    call,          \* the last call: operation, arguments, returned value
    lastSet,       \* history: the argument of the last set_header call
    verified       \* history: the (txid, proof) pair that verified, and the root

vars == <<built, transactions, txids, tree_levels, root, header, block_header,
          call, lastSet, verified>>

treeVars == <<built, transactions, txids, tree_levels, root, header>>

\* ------------------------------------------------------------------ inputs
Data == 1..NumData

RECURSIVE SeqsUpTo(_, _)
SeqsUpTo(S, n) ==
    IF n = 0 THEN {<<>>}
    ELSE LET shorter == SeqsUpTo(S, n - 1)
         IN shorter \cup {Append(s, x) : s \in {t \in shorter : Len(t) = n - 1}, x \in S}

\* the record lists a block is built from: the lists 1..n of different records
\* and every list over Data up to MaxTx records (repetitions included)
DistinctLists == {[i \in 1..n |-> i] : n \in 0..MaxDistinct}

TxLists == SeqsUpTo(Data, MaxTx) \cup DistinctLists

\* the record lists of the run that feeds the client made-up proofs
SmallTxLists == SeqsUpTo(Data, MaxTx)

\* the record lists whose roots are compared: every list over Data of up to
\* MaxTx + 1 records
CommitLists == SeqsUpTo(Data, MaxTx + 1)

\* the txid of every record content in use, and of one that is in no block
LeafIds == {double_sha256(Chr(d)) : d \in 1..(MaxDistinct + 1)}

\* every hash stored in the tree
TreeNodes ==
    UNION {{tree_levels[k][i] : i \in 1..Len(tree_levels[k])} : k \in 1..Len(tree_levels)}

\* the strings handed to get_merkle_proof and verify_transaction as txid:
\* the hashes of the tree, the txids of all records, and the empty string
Cand == TreeNodes \cup LeafIds \cup {<<>>}

\* the roots of other blocks: of the one-record blocks (the record's txid)
\* and of the empty block (None)
ForeignRoots == {double_sha256(Chr(d)) : d \in Data} \cup {None}

\* the headers a client may be handed
HeaderInputs == (IF built THEN {header} ELSE {}) \cup {Header(r) : r \in ForeignRoots}

\* the leaf list MerkleTree.__init__ computes from the transactions
TxidsOf(txs) == [i \in 1..Len(txs) |-> txs[i].txid]

NoCall == [op |-> "none", txid |-> None, proof |-> NoneProof, ret |-> "None", steps |-> 0]

NoVerified == [txid |-> None, proof |-> NoneProof, root |-> None, failed |-> FALSE]

\* -------------------------------------------------------------------- Init
\* SPVClient() has been constructed; no block exists yet
Init ==
    /\ built = FALSE
    /\ transactions = <<>>
    /\ txids = <<>>
    /\ tree_levels = <<>>
    /\ root = None
    /\ header = NoHeader
    /\ block_header = NoHeader
    /\ call = NoCall
    /\ lastSet = NoHeader
    /\ verified = NoVerified

\* ----------------------------------------------------------------- actions
\* Block(transactions), MerkleTree(transactions) and FullNode(block) for the
\* records recs
CreateBlock(recs) ==
    /\ ~built
    /\ LET txs == [i \in 1..Len(recs) |-> Transaction(Chr(recs[i]))]
           leaves == TxidsOf(txs)
           levels == _build_tree_levels(leaves)
           r == IF levels # <<>> THEN levels[Len(levels)][1] ELSE None
       IN /\ transactions' = txs
          /\ tree_levels' = levels
          /\ txids' = LeavesAfterBuild(leaves)
          /\ root' = r
          /\ header' = Header(r)
    /\ built' = TRUE
    /\ call' = [NoCall EXCEPT !.op = "create"]
    /\ UNCHANGED <<block_header, lastSet, verified>>

\* set_header that keeps a header once one is stored
set_header_KeepFirst(old, h) == IF old.isNone THEN h ELSE old

\* SPVClient.set_header(h): the stored header after the call
set_header(old, h) == h

SetHeader(h) ==
    /\ block_header' = set_header(block_header, h)
    /\ lastSet' = h
    /\ call' = [NoCall EXCEPT !.op = "set_header"]
    /\ UNCHANGED <<treeVars, verified>>

\* get_proof that takes the sibling of the leaf out of its level with pop()
\* where the code indexes; txids is the list object stored as level 0
TreeAfterGetProof_Pop(ids, levels, target_txid) ==
    LET current_index == Index(ids, target_txid)
        sibling_index == IF current_index % 2 = 0 THEN current_index + 1
                         ELSE current_index - 1
        popped == [i \in 1..(Len(ids) - 1) |->
                      IF i < sibling_index + 1 THEN ids[i] ELSE ids[i + 1]]
    IN IF current_index = -1 \/ Len(levels) <= 1
       THEN [txids |-> ids, tree_levels |-> levels]
       ELSE [txids |-> popped, tree_levels |-> [levels EXCEPT ![1] = popped]]

\* the lists of the tree after MerkleTree.get_proof(target_txid): the search
\* and the loop only read self.txids and self.tree_levels, the appends go to
\* the local list proof
TreeAfterGetProof(ids, levels, target_txid) ==
    [txids |-> ids, tree_levels |-> levels]

\* FullNode.get_merkle_proof(t): MerkleTree.get_proof of the node's block
GetMerkleProof(t) ==
    /\ built
    /\ call' = [op |-> "get_proof", txid |-> t,
                proof |-> get_proof(txids, tree_levels, t),
                ret |-> "None", steps |-> 0]
    /\ LET after == TreeAfterGetProof(txids, tree_levels, t)
       IN /\ txids' = after.txids
          /\ tree_levels' = after.tree_levels
    /\ UNCHANGED <<built, transactions, root, header, block_header, lastSet, verified>>

\* the history of verified pairs after verify_transaction(t, p) returned ret
\* under a header of root r
NoteVerified(t, p, ret, r) ==
    IF t = verified.txid /\ p = verified.proof /\ verified # NoVerified
    THEN [verified EXCEPT !.failed = (@ \/ ret # "True")]
    ELSE IF ret = "True"
    THEN [txid |-> t, proof |-> p, root |-> r, failed |-> FALSE]
    ELSE verified

\* SPVClient.verify_transaction(t, p)
VerifyTransaction(t, p) ==
    /\ LET res == verify_transaction(block_header, t, p)
       IN call' = [op |-> "verify", txid |-> t, proof |-> p,
                   ret |-> res.ret, steps |-> res.steps]
    /\ UNCHANGED <<treeVars, block_header, lastSet>>

\* the proofs the client passes on: the one of the last call (as returned by
\* the full node, or as passed before), the one that verified, None, and the
\* empty proof
HeldProofs == {call.proof, verified.proof, NoneProof, <<>>}

\* the proofs a caller makes up: None and every list of up to MaxProofLen
\* (sibling, side) tuples over the candidate strings
CandAny == TreeNodes \cup {<<>>, double_sha256(Chr(NumData + 1))}

ProofEntries == CandAny \X {"left", "right"}

ArbitraryProofs == {NoneProof} \cup SeqsUpTo(ProofEntries, MaxProofLen)

\* one block, its full node and one client; the client passes on what the
\* full node returned, under whatever txid
Next ==
    \/ \E recs \in TxLists : CreateBlock(recs)
    \/ \E h \in HeaderInputs : SetHeader(h)
    \/ \E t \in Cand : GetMerkleProof(t)
    \/ \E t \in Cand, p \in HeldProofs : VerifyTransaction(t, p) /\ UNCHANGED verified

Spec == Init /\ [][Next]_vars

\* the client is handed made-up proofs.  verify_transaction changes nothing
\* but the record of the last call, so a verification that follows another
\* one reaches no state that one from the state before does not reach.
NextAny ==
    \/ \E recs \in SmallTxLists : CreateBlock(recs)
    \/ \E h \in HeaderInputs : SetHeader(h)
    \/ \E t \in CandAny, p \in ArbitraryProofs :
          call.op # "verify" /\ VerifyTransaction(t, p) /\ UNCHANGED verified

SpecAny == Init /\ [][NextAny]_vars

\* blocks of the lists whose roots are compared, and the header download
NextCommit ==
    \/ \E recs \in CommitLists : CreateBlock(recs)
    \/ \E h \in HeaderInputs : SetHeader(h)

SpecCommit == Init /\ [][NextCommit]_vars

\* the client's header is replaced between verifications, and the history of
\* the pair that verified is kept
NextHdr ==
    \/ \E recs \in DistinctLists : CreateBlock(recs)
    \/ \E h \in HeaderInputs : SetHeader(h)
    \/ \E t \in Cand : GetMerkleProof(t)
    \/ \E t \in Cand, p \in HeldProofs :
          /\ VerifyTransaction(t, p)
          /\ verified' = NoteVerified(t, p, call'.ret, lastSet.merkle_root)

SpecHdr == Init /\ [][NextHdr]_vars

\* ------------------------------------------------------------------ claims
\* the leaf fingerprints of the records, as MerkleTree.__init__ computes them
\* before the build
InputLeaves == TxidsOf(transactions)

Range(list) == {list[i] : i \in 1..Len(list)}

Ceil2(n) == (n + 1) \div 2

\* the client holds the header of the node's block
HoldsBlockHeader == built /\ block_header = header

\* C1: for a non-empty block and each of its records, verify_transaction of
\* the record's txid with the proof get_proof returns for it, against the
\* header of the block, returns True.
C1_Completeness ==
    ( /\ HoldsBlockHeader
      /\ call.op = "verify"
      /\ call.txid \in Range(InputLeaves)
      /\ call.proof = get_proof(txids, tree_levels, call.txid) )
    => call.ret = "True"

\* an odd block with an odd level above the leaves: its last record verifies
C1_Witness ==
    /\ HoldsBlockHeader
    /\ Len(transactions) = 5
    /\ call.op = "verify"
    /\ call.txid = InputLeaves[5]
    /\ call.proof = get_proof(txids, tree_levels, call.txid)
    /\ call.ret = "True"

\* C2 (as claimed): whenever verify_transaction returns True against the
\* header of the block, whatever the proof, the txid is a leaf fingerprint
\* of the block.
C2_Soundness ==
    (HoldsBlockHeader /\ call.op = "verify" /\ call.ret = "True")
    => call.txid \in Range(InputLeaves)

\* C3: against the header of the block, the genuine proof of a leaf with a
\* txid other than that leaf's returns False.
C3_TamperDetected ==
    \A i \in 1..Len(transactions) :
        ( /\ HoldsBlockHeader
          /\ call.op = "verify"
          /\ call.proof = get_proof(txids, tree_levels, InputLeaves[i])
          /\ call.txid # InputLeaves[i] )
        => call.ret = "False"

\* the one-record block: the empty proof with another txid is refused
C3_Witness ==
    /\ HoldsBlockHeader
    /\ Len(transactions) = 1
    /\ call.op = "verify"
    /\ call.proof = <<>>
    /\ call.txid # InputLeaves[1]
    /\ call.txid \in LeafIds
    /\ call.ret = "False"

\* the number of proof entries of the leaf at 0-based index idx of n leaves
\* when no self-paired node contributes one
RECURSIVE SelfPairFreeLen(_, _)
SelfPairFreeLen(n, idx) ==
    IF n <= 1 THEN 0
    ELSE (IF n % 2 # 0 /\ idx = n - 1 THEN 0 ELSE 1)
         + SelfPairFreeLen(Ceil2(n), idx \div 2)

\* C4 (as claimed): for an odd number of leaves, the proof of the last leaf
\* has no entry at a level where the path node is the self-paired last node
\* of an odd level; for 3 records it has length 1.
C4_NoSelfPairing ==
    LET n == Len(transactions) IN
    ( /\ call.op = "get_proof"
      /\ n % 2 # 0
      /\ call.txid = InputLeaves[n]
      /\ Index(InputLeaves, call.txid) = n - 1 )
    => Len(call.proof) = SelfPairFreeLen(n, n - 1)

\* C5: get_proof returns None exactly for the targets that are not among the
\* input leaf fingerprints, and a proof that folds to the root otherwise; the
\* empty block has no level and no root.
C5_NotFound ==
    /\ call.op = "get_proof" =>
          /\ (call.proof = NoneProof) <=> (call.txid \notin Range(InputLeaves))
          /\ call.proof # NoneProof =>
                /\ Len(call.proof) = Len(tree_levels) - 1
                /\ Fold(call.txid, call.proof, 1) = root
    /\ (built /\ transactions = <<>>) => (root = None /\ tree_levels = <<>>)

\* a hash of the tree that is no leaf is asked for and is not found
C5_Witness ==
    /\ call.op = "get_proof"
    /\ call.txid \in TreeNodes \ Range(InputLeaves)
    /\ call.proof = NoneProof

\* C6: a block of one record has one level, its root is the record's txid,
\* the record's proof is empty, and the record verifies with the empty proof
\* without a fold step.
C6_SingleRecord ==
    Len(transactions) = 1 =>
        /\ tree_levels = << <<transactions[1].txid>> >>
        /\ root = double_sha256(transactions[1].data)
        /\ (call.op = "get_proof" /\ call.txid = transactions[1].txid)
              => call.proof = <<>>
        /\ ( /\ call.op = "verify"
             /\ block_header = header
             /\ call.txid = transactions[1].txid
             /\ call.proof = <<>> )
              => (call.ret = "True" /\ call.steps = 0)

C6_Witness ==
    /\ Len(transactions) = 1
    /\ call.op = "verify"
    /\ block_header = header
    /\ call.txid = transactions[1].txid
    /\ call.proof = <<>>
    /\ call.ret = "True"

\* C7: without a header, and with None for the proof, verify_transaction
\* returns False without a fold step and without raising, and the stored
\* header is the one set last (None if none was).
C7_MissingInputs ==
    /\ block_header = lastSet
    /\ call.op = "verify" =>
          /\ call.ret \in {"True", "False"}
          /\ (block_header.isNone \/ call.proof = NoneProof)
                => (call.ret = "False" /\ call.steps = 0)

\* no header is stored and a genuine proof of two entries is refused
C7_Witness ==
    /\ built
    /\ block_header.isNone
    /\ call.op = "verify"
    /\ call.txid \in Range(InputLeaves)
    /\ call.proof = get_proof(txids, tree_levels, call.txid)
    /\ Len(call.proof) = 2
    /\ call.ret = "False"

\* C8: the stored header is the one set last, verify_transaction returns
\* True exactly when the fold equals its root, and a pair that verified
\* verifies later exactly under a header of the root it verified under.
C8_LastWriteWins ==
    /\ block_header = lastSet
    /\ (call.op = "verify" /\ ~lastSet.isNone /\ call.proof # NoneProof) =>
          ((call.ret = "True") <=> (Fold(call.txid, call.proof, 1) = lastSet.merkle_root))
    /\ ( /\ call.op = "verify"
         /\ verified # NoVerified
         /\ call.txid = verified.txid
         /\ call.proof = verified.proof ) =>
          ((call.ret = "True") <=> (~lastSet.isNone /\ lastSet.merkle_root = verified.root))

\* a pair verified, failed under a header of another root, and verifies
\* again under a header of the first root
C8_Witness ==
    /\ call.op = "verify"
    /\ call.txid = verified.txid
    /\ call.proof = verified.proof
    /\ Len(call.proof) >= 2
    /\ verified.failed
    /\ call.ret = "True"

\* C9 (as claimed): the stored level 0 is the input leaf fingerprints in
\* input order, and each stored level above has ceil(len/2) entries of the
\* level below.
C9_LevelStructure ==
    (built /\ Len(transactions) >= 1) =>
        /\ tree_levels[1] = InputLeaves
        /\ \A k \in 1..(Len(tree_levels) - 1) :
              Len(tree_levels[k + 1]) = Ceil2(Len(tree_levels[k]))

\* C10 (as claimed): the leaf list handed to _build_tree_levels is after the
\* build what it was before.
C10_InputNotMutated ==
    built => txids = InputLeaves

\* what the build of the block's records returns, computed anew
AsBuilt ==
    /\ tree_levels = _build_tree_levels(InputLeaves)
    /\ txids = LeavesAfterBuild(InputLeaves)
    /\ root = (IF tree_levels # <<>> THEN tree_levels[Len(tree_levels)][1] ELSE None)
    /\ header = Header(root)

\* C11: once the block is built no call changes the records, the leaf list,
\* the levels, the root or the block header; get_merkle_proof and
\* verify_transaction leave the client's header alone; and a query returns,
\* whenever it is made, the proof the query on the tree as built returns.
C11_ReadOnlyAfterBuild ==
    /\ [](call.op = "get_proof" =>
            call.proof = get_proof(LeavesAfterBuild(InputLeaves),
                                   _build_tree_levels(InputLeaves), call.txid))
    /\ [][ /\ built => treeVars' = treeVars
           /\ call'.op \in {"get_proof", "verify"} => block_header' = block_header
         ]_vars

\* a proof was handed out, a verification with it under another txid failed,
\* and the tree of the odd block is still the tree as built
C11_Witness ==
    /\ HoldsBlockHeader
    /\ Len(transactions) = 3
    /\ call.op = "verify"
    /\ call.ret = "False"
    /\ call.txid \notin Range(InputLeaves)
    /\ call.proof = get_proof(txids, tree_levels, InputLeaves[3])
    /\ AsBuilt

\* the 1-based positions of the fingerprint x among the input leaves
PositionsOf(x) == {i \in 1..Len(InputLeaves) : InputLeaves[i] = x}

RECURSIVE Pow2(_)
Pow2(k) == IF k = 0 THEN 1 ELSE 2 * Pow2(k - 1)

\* the siblings, in the stored levels, of the nodes above the leaf at 0-based
\* index idx, each with the side it is on
SiblingPath(idx) ==
    [k \in 1..(Len(tree_levels) - 1) |->
        LET at == idx \div Pow2(k - 1)
        IN IF at % 2 = 0 THEN <<tree_levels[k][at + 2], "right">>
                         ELSE <<tree_levels[k][at], "left">>]

\* C12: for a fingerprint at several leaf positions get_proof returns the
\* sibling path of the lowest position, and that proof folds to the root.
C12_FirstMatch ==
    (call.op = "get_proof" /\ Cardinality(PositionsOf(call.txid)) >= 2) =>
        LET lowest == CHOOSE i \in PositionsOf(call.txid) :
                          \A j \in PositionsOf(call.txid) : i <= j
        IN /\ call.proof = SiblingPath(lowest - 1)
           /\ Fold(call.txid, call.proof, 1) = root

\* the 2nd and 3rd of three records are the same and the 1st is another: the
\* proof is the one of the 2nd
C12_Witness ==
    /\ call.op = "get_proof"
    /\ Len(transactions) = 3
    /\ PositionsOf(call.txid) = {2, 3}
    /\ call.proof = SiblingPath(1)
    /\ call.proof # SiblingPath(2)

\* MerkleTree(transactions).root for the records recs
RootOf(recs) ==
    LET levels == _build_tree_levels([i \in 1..Len(recs) |-> Transaction(Chr(recs[i])).txid])
    IN IF levels # <<>> THEN levels[Len(levels)][1] ELSE None

\* the root of every list that is compared
RootOfList == [recs \in CommitLists |-> RootOf(recs)]

\* the records of the block, as the list of their contents
Records == [i \in 1..Len(transactions) |-> transactions[i].data[1].c]

\* C13 (as claimed): no list of records other than the block's builds to the
\* root of the block, whatever its length.
C13_RootBindsSequence ==
    built => \A recs \in CommitLists : recs # Records => RootOfList[recs] # root

\* C13 (amended): no other list of as many records as the block has builds
\* to the root of the block.
C13_RootBindsSameLength ==
    built => \A recs \in CommitLists :
                (recs # Records /\ Len(recs) = Len(Records)) => RootOfList[recs] # root

\* the client holds the header of an odd block; lists of the same length
\* that differ from it in the last record alone are among those compared
C13_Witness ==
    /\ HoldsBlockHeader
    /\ Len(transactions) = 3
    /\ \E recs \in CommitLists :
          /\ Len(recs) = 3
          /\ recs # Records
          /\ \A i \in 1..2 : recs[i] = Records[i]
          /\ RootOfList[recs] # root

====
